---- MODULE Spec2Model ----
(***************************************************************************)
(* gke-scale-disk-sidecar: the volume resolver run once by main, and the   *)
(* volume monitor loop with its per-volume escalation                      *)
(* (checkFilesystemUsage) and the disk resize protocol                     *)
(* (resizePersistentDisk).                                                 *)
(*                                                                         *)
(* The specifications share the variables:                                 *)
(*   Spec         main from the call of getMountedVolumes to the point     *)
(*                where it either dies (log.Fatal) or starts the loop;     *)
(*   MonitorSpec  the monitor loop of main, started with a working set,    *)
(*                and everything checkFilesystemUsage does in it.          *)
(*   FairMonitorSpec is MonitorSpec with the progress the single control   *)
(*                thread guarantees (every blocking call returns).         *)
(***************************************************************************)
EXTENDS Integers, Sequences, FiniteSets, TLC

VARIABLES
    pc,          \* position of the control thread
    volumes,     \* main: the requested volume names (strings.Split result)
    podEnv,      \* what the orchestrator and the host answer for each name
    fsBlocks,    \* host: the size in blocks of a mounted filesystem
    gceVolumes,  \* main: the working set returned by getMountedVolumes
    err,         \* main: the error of the last call (resolver or usage check)
    threshold,   \* flag -threshold
    expandBy,    \* flag -expand-by
    idx,         \* position of the range loop over gceVolumes
    stat,        \* getFilesystemUsage: local stat, as syscall.Statfs filled it
    usage,       \* checkFilesystemUsage: local usage
    diskSizeGb,  \* resizePersistentDisk: disk.SizeGb as fetched
    newSize,     \* resizePersistentDisk: the size asked for
    op,          \* resizePersistentDisk: local op
    pdSize,      \* provider: size of the disk behind each working-set entry
    pdOp,        \* provider: the operation created by the last resize request
    samples,     \* history: usage samples taken in the current usage check
    trace        \* history: external calls made in the current usage check

vars == <<pc, volumes, podEnv, fsBlocks, gceVolumes, err, threshold, expandBy,
          idx, stat, usage, diskSizeGb, newSize, op, pdSize, pdOp, samples,
          trace>>

startupVars == <<volumes, podEnv, fsBlocks>>
configVars == <<threshold, expandBy>>
localVars == <<stat, usage, diskSizeGb, newSize, op>>

-----------------------------------------------------------------------------
(* Bounds *)

MaxVolumes == 2     \* names requested, entries of the working set
MaxPending == 2     \* polls a provider operation may answer before it is DONE
MaxSizeGb == 4      \* the largest size the provider accepts in a resize request
MaxBlocks == 12     \* the largest filesystem, in blocks, whose usage is computed
MaxDiskGb == 25     \* the largest disk size a resize is computed from
MaxPercent == 28    \* -expand-by ranges over -MaxPercent..MaxPercent

(* Program constants *)

DefaultThreshold == 80
DefaultExpandBy == 20

-----------------------------------------------------------------------------
(* Errors.  nil is NoErr; every other error is a record naming where it   *)
(* was made and, for a multierror, the messages it wraps.                  *)

NoErr == [kind |-> "nil", msgs |-> <<>>]
Errorf(kind) == [kind |-> kind, msgs |-> <<>>]

-----------------------------------------------------------------------------
(* The volume resolver *)

Names == {"data", "logs"}

\* type mountedGCEVolume
mountedGCEVolume(name, mountedPath, devicePath, pdName, region, zone) ==
    [Name |-> name, MountedPath |-> mountedPath, DevicePath |-> devicePath,
     PDName |-> pdName, GCPRegion |-> region, GCPZone |-> zone]

\* the zero value of mountedGCEVolume, as make([]mountedGCEVolume, n) holds
ZeroVolume == mountedGCEVolume("", "", "", "", "", "")

\* What the pod, the claim, the volume and the host say about a volume that
\* passes every check.
GoodEnv ==
    [declared |-> TRUE, mounted |-> TRUE, inlineGCE |-> FALSE, hasPVC |-> TRUE,
     pvcGet |-> "ok", pvcPhase |-> "Bound", pvGet |-> "ok", pvPhase |-> "Bound",
     pvIsGCE |-> TRUE, hasLabels |-> TRUE, hasRegion |-> TRUE, hasZone |-> TRUE,
     partition |-> 0, readOnly |-> FALSE, fsType |-> "ext4",
     findmnt |-> "ok", deviceExists |-> TRUE]

\* GoodEnv and every environment that differs from it in one answer.
Envs ==
    { GoodEnv,
      [GoodEnv EXCEPT !.fsType = ""],
      [GoodEnv EXCEPT !.declared = FALSE],
      [GoodEnv EXCEPT !.mounted = FALSE],
      [GoodEnv EXCEPT !.inlineGCE = TRUE],
      [GoodEnv EXCEPT !.hasPVC = FALSE],
      [GoodEnv EXCEPT !.pvcGet = "err"],
      [GoodEnv EXCEPT !.pvcGet = "nil"],
      [GoodEnv EXCEPT !.pvcPhase = "Pending"],
      [GoodEnv EXCEPT !.pvGet = "err"],
      [GoodEnv EXCEPT !.pvGet = "nil"],
      [GoodEnv EXCEPT !.pvPhase = "Released"],
      [GoodEnv EXCEPT !.pvIsGCE = FALSE],
      [GoodEnv EXCEPT !.hasLabels = FALSE],
      [GoodEnv EXCEPT !.hasRegion = FALSE],
      [GoodEnv EXCEPT !.hasZone = FALSE],
      [GoodEnv EXCEPT !.partition = 1],
      [GoodEnv EXCEPT !.readOnly = TRUE],
      [GoodEnv EXCEPT !.fsType = "xfs"],
      [GoodEnv EXCEPT !.findmnt = "err"],
      [GoodEnv EXCEPT !.deviceExists = FALSE] }

\* resolveDevicePath: findmnt, filepath.Clean, os.Stat.  filepath.Clean never
\* returns the empty string, so a nil error comes with a non-empty path.
resolveDevicePath(e, name) ==
    IF e.findmnt = "err" THEN [path |-> "", err |-> Errorf("findmnt")]
    ELSE IF ~e.deviceExists THEN [path |-> "", err |-> Errorf("no existent device")]
    ELSE [path |-> "/dev/" \o name, err |-> NoErr]

\* The body of getMountedVolumes' loop for one name: either the return it
\* makes ("ret", with the error it returns) or the record it appends.
resolveVolume(e, name) ==
    IF ~e.declared THEN [ret |-> TRUE, err |-> Errorf("does not exist in pod")]
    ELSE IF ~e.mounted THEN [ret |-> TRUE, err |-> Errorf("not mounted to container")]
    ELSE IF e.inlineGCE THEN [ret |-> TRUE, err |-> Errorf("short-hand bound")]
    ELSE IF ~e.hasPVC THEN [ret |-> TRUE, err |-> Errorf("not a GCEPersistentDisk")]
    ELSE IF e.pvcGet = "err" THEN [ret |-> TRUE, err |-> Errorf("get pvc")]
    ELSE IF e.pvcGet = "nil" THEN [ret |-> TRUE, err |-> Errorf("could not find pvc")]
    ELSE IF e.pvcPhase # "Bound" THEN [ret |-> TRUE, err |-> Errorf("pvc not Bound")]
    ELSE IF e.pvGet = "err" THEN [ret |-> TRUE, err |-> Errorf("get pv")]
    ELSE IF e.pvGet = "nil" THEN [ret |-> TRUE, err |-> Errorf("could not find pv")]
    ELSE IF e.pvPhase # "Bound" THEN [ret |-> TRUE, err |-> Errorf("pv not Bound")]
    ELSE IF ~e.pvIsGCE THEN [ret |-> TRUE, err |-> Errorf("pv not a GCEPersistentDisk")]
    ELSE IF ~e.hasLabels THEN [ret |-> TRUE, err |-> Errorf("missing labels")]
    ELSE IF ~e.hasRegion THEN [ret |-> TRUE, err |-> Errorf("missing region label")]
    ELSE IF ~e.hasZone THEN [ret |-> TRUE, err |-> Errorf("missing zone label")]
    ELSE IF e.partition # 0 THEN [ret |-> TRUE, err |-> Errorf("more than one partition")]
    ELSE IF e.readOnly THEN [ret |-> TRUE, err |-> Errorf("read only")]
    ELSE IF e.fsType # "" /\ e.fsType # "ext4" THEN [ret |-> TRUE, err |-> Errorf("not ext4")]
    ELSE LET dp == resolveDevicePath(e, name) IN
         IF dp.err # NoErr THEN [ret |-> TRUE, err |-> NoErr]
         ELSE IF dp.path = "" THEN [ret |-> TRUE, err |-> Errorf("could not resolve device path")]
         ELSE [ret |-> FALSE, err |-> NoErr,
               vol |-> mountedGCEVolume(name, "/mnt/" \o name, dp.path,
                                        "pd-" \o name, "region", "zone")]

\* make([]mountedGCEVolume, len(volumes)): len(volumes) zero values
MakeVolumes(n) == [i \in 1..n |-> ZeroVolume]

\* The range loop of getMountedVolumes over names[i..], acc being gceVolumes.
RECURSIVE resolveFrom(_, _, _, _)
resolveFrom(env, names, i, acc) ==
    IF i > Len(names) THEN [vols |-> acc, err |-> NoErr]
    ELSE LET r == resolveVolume(env[names[i]], names[i]) IN
         IF r.ret THEN [vols |-> <<>>, err |-> r.err]
         ELSE resolveFrom(env, names, i + 1, Append(acc, r.vol))

\* The same loop, returning what it has so far when a name fails.
RECURSIVE resolveFromPartialMutant(_, _, _, _)
resolveFromPartialMutant(env, names, i, acc) ==
    IF i > Len(names) THEN [vols |-> acc, err |-> NoErr]
    ELSE LET r == resolveVolume(env[names[i]], names[i]) IN
         IF r.ret THEN [vols |-> acc, err |-> r.err]
         ELSE resolveFromPartialMutant(env, names, i + 1, Append(acc, r.vol))

getMountedVolumesPartialMutant(env, names) ==
    resolveFromPartialMutant(env, names, 1, MakeVolumes(Len(names)))

\* getMountedVolumes: a nil slice is the empty sequence.
getMountedVolumes(env, names) ==
    resolveFrom(env, names, 1, MakeVolumes(Len(names)))

\* Whether every requested name passes every check of the resolver.
AllResolve(env, names) ==
    \A i \in 1..Len(names) : ~resolveVolume(env[names[i]], names[i]).ret

-----------------------------------------------------------------------------
(* main, from the resolver to the start of the loop *)

RECURSIVE SeqsUpTo(_, _)
SeqsUpTo(S, n) ==
    IF n = 0 THEN {<<>>}
    ELSE LET shorter == SeqsUpTo(S, n - 1) IN
         shorter \cup {Append(q, x) : q \in shorter, x \in S}

NilOp == [Status |-> "nil", HasError |-> FALSE, Errors |-> <<>>]
NoPdOp == [Status |-> "nil", HasError |-> FALSE, Errors |-> <<>>,
           age |-> 0, target |-> 0, disk |-> 0]

\* syscall.Statfs_t{}, line 291, as far as line 297 reads it
ZeroStat == [Blocks |-> 0, Bavail |-> 0]

Init ==
    /\ pc = "main"
    /\ fsBlocks = 4
    /\ stat = ZeroStat
    /\ volumes \in SeqsUpTo(Names, MaxVolumes) \ {<<>>}
    /\ podEnv \in [Names -> Envs]
    /\ gceVolumes = <<>>
    /\ err = NoErr
    /\ threshold = DefaultThreshold
    /\ expandBy = DefaultExpandBy
    /\ idx = 1
    /\ usage = 0
    /\ diskSizeGb = 0
    /\ newSize = 0
    /\ op = NilOp
    /\ pdSize = <<>>
    /\ pdOp = NoPdOp
    /\ samples = <<>>
    /\ trace = <<>>

\* main, lines 136-149: resolve, die on an error, die when the number of
\* records is not the number of names, else start the loop.
Startup ==
    /\ pc = "main"
    /\ LET r == getMountedVolumes(podEnv, volumes) IN
        /\ gceVolumes' = r.vols
        /\ err' = r.err
        /\ pc' = IF r.err # NoErr THEN "fatal"
                 ELSE IF Len(r.vols) # Len(volumes) THEN "fatal"
                 ELSE "range"
    /\ UNCHANGED <<startupVars, configVars, localVars, idx, pdSize, pdOp,
                   samples, trace>>

Next == Startup

Spec == Init /\ [][Next]_vars

\* The resolver has returned to main.
Resolved == pc # "main"

\* C6: when every requested name passes every check, startup completes and
\* main enters the loop with one working-set entry per requested name.
C6_StartupEntersLoop ==
    (Resolved /\ AllResolve(podEnv, volumes)) =>
        (pc = "range" /\ Len(gceVolumes) = Len(volumes))

\* C7: on success the resolver returns exactly one record per requested
\* name, in request order, and no zero-valued record.
C7_OneRecordPerName ==
    (Resolved /\ AllResolve(podEnv, volumes)) =>
        /\ Len(gceVolumes) = Len(volumes)
        /\ \A i \in 1..Len(volumes) : gceVolumes[i].Name = volumes[i]
        /\ \A i \in 1..Len(gceVolumes) : gceVolumes[i] # ZeroVolume

\* C8: when any requested name fails any check, the resolver returns zero
\* records, however many earlier names resolved.
C8_AllOrNothing ==
    (Resolved /\ ~AllResolve(podEnv, volumes)) => Len(gceVolumes) = 0

\* The second of two names fails a check after the first one resolved.
C8_Witness ==
    /\ Resolved
    /\ Len(volumes) = 2
    /\ ~resolveVolume(podEnv[volumes[1]], volumes[1]).ret
    /\ resolveVolume(podEnv[volumes[2]], volumes[2]).ret
    /\ Len(gceVolumes) = 0

\* C9: every resolution failure is returned as an error by the resolver and
\* ends the process before the loop.
C9_ResolutionFailureIsFatalError ==
    (Resolved /\ ~AllResolve(podEnv, volumes)) =>
        (err # NoErr /\ pc = "fatal")

-----------------------------------------------------------------------------
(* float64 arithmetic, as far as lines 226-227 and 297 use it.  A finite    *)
(* non-negative float64 is kept as [b, f]: the bits b (most significant     *)
(* first) of an integer numerator and the number f of them that follow the  *)
(* binary point.  The operands that are integers are small.                 *)

Max2(a, b) == IF a >= b THEN a ELSE b

\* The bits computed after the binary point of a quotient before it is
\* rounded: the 53 bits of a float64, a guard bit and the leading zeros of a
\* small quotient.
QuotientBits == 70

\* The bits of the integers that are converted to float64.
IntBits == 30

\* The bits of one limb of a product.
LimbBits == 15

Zeros(n) == [i \in 1..n |-> 0]

\* the w bits of the natural n < 2^w
NatBits(n, w) == [i \in 1..w |-> (n \div 2^(w - i)) % 2]

RECURSIVE BitsNat(_)
BitsNat(b) ==
    IF Len(b) = 0 THEN 0
    ELSE IF Len(b) = 1 THEN b[1]
    ELSE LET h == Len(b) \div 2
         IN  BitsNat(SubSeq(b, 1, h)) * 2^(Len(b) - h)
                 + BitsNat(SubSeq(b, h + 1, Len(b)))

AnyBit(b) == \E i \in 1..Len(b) : b[i] = 1

StripZeros(b) ==
    IF ~AnyBit(b) THEN <<>>
    ELSE LET first == CHOOSE i \in 1..Len(b) :
                          b[i] = 1 /\ \A j \in 1..(i - 1) : b[j] = 0
         IN  SubSeq(b, first, Len(b))

\* b + 1
IncBits(b) ==
    IF \A i \in 1..Len(b) : b[i] = 1 THEN <<1>> \o Zeros(Len(b))
    ELSE LET last == CHOOSE i \in 1..Len(b) :
                         b[i] = 0 /\ \A j \in (i + 1)..Len(b) : b[j] = 1
         IN  [i \in 1..Len(b) |->
                 IF i < last THEN b[i] ELSE IF i = last THEN 1 ELSE 0]

\* 2^i mod d
RECURSIVE PowMod2(_, _)
PowMod2(i, d) ==
    IF i = 0 THEN 1 % d
    ELSE LET h == PowMod2(i \div 2, d)
         IN  (h * h * (IF i % 2 = 1 THEN 2 ELSE 1)) % d

\* round to nearest, ties to even, at 53 significant bits; sticky tells that
\* the exact value is above [b, f] by less than one unit of its last bit
Round53(x, sticky) ==
    LET s == StripZeros(x.b)
        n == Len(s) - 53
    IN  IF n <= 0 THEN [b |-> s, f |-> x.f]
        ELSE LET keep == SubSeq(s, 1, 53)
                 rest == SubSeq(s, 54, Len(s))
                 up == /\ rest[1] = 1
                       /\ \/ sticky
                          \/ AnyBit(Tail(rest))
                          \/ keep[53] = 1
             IN  [b |-> IF up THEN IncBits(keep) ELSE keep, f |-> x.f - n]

\* float64(a) / float64(d) for naturals a and d > 0, by long division: the
\* bit i after the point comes from the remainder a * 2^(i-1) mod d
Float64Div(a, d) ==
    LET r == a % d
        frac == [i \in 1..QuotientBits |->
                     ((2 * ((r * PowMod2(i - 1, d)) % d)) \div d)]
    IN  Round53([b |-> NatBits(a \div d, IntBits) \o frac,
                 f |-> QuotientBits],
                (r * PowMod2(QuotientBits, d)) % d # 0)

\* 1.0 - x for 0 <= x <= 1: the two's complement of the fraction bits
Float64OneMinus(x) ==
    LET s == StripZeros(x.b)
    IN  IF s = <<>> THEN [b |-> <<1>> \o Zeros(x.f), f |-> x.f]
        ELSE IF Len(s) > x.f THEN [b |-> <<>>, f |-> x.f]
        ELSE LET full == Zeros(x.f - Len(s)) \o s
             IN  Round53([b |-> IncBits([i \in 1..x.f |-> 1 - full[i]]),
                          f |-> x.f], FALSE)

\* limbs * k, least significant limb first; carry comes from the limbs below
RECURSIVE MulLimbs(_, _, _)
MulLimbs(limbs, k, carry) ==
    IF limbs = <<>> THEN <<carry>>
    ELSE LET t == limbs[1] * k + carry
         IN  <<t % 2^LimbBits>> \o MulLimbs(Tail(limbs), k, t \div 2^LimbBits)

\* x * float64(k) for a natural k < 2^LimbBits
Float64Mul(x, k) ==
    LET nl == (Len(x.b) + LimbBits - 1) \div LimbBits
        padded == Zeros(nl * LimbBits - Len(x.b)) \o x.b
        limbs == [j \in 1..nl |->
                     BitsNat(SubSeq(padded, (nl - j) * LimbBits + 1,
                                    (nl - j + 1) * LimbBits))]
        out == MulLimbs(limbs, k, 0)
        bits == [i \in 1..((nl + 1) * LimbBits) |->
                     NatBits(out[nl + 1 - ((i - 1) \div LimbBits)],
                             LimbBits)[((i - 1) % LimbBits) + 1]]
    IN  Round53([b |-> bits, f |-> x.f], FALSE)

\* the integer part
Float64Floor(x) ==
    IF x.f <= 0 THEN BitsNat(x.b \o Zeros(0 - x.f))
    ELSE IF Len(x.b) <= x.f THEN 0
    ELSE BitsNat(SubSeq(x.b, 1, Len(x.b) - x.f))

Float64HasFraction(x) ==
    /\ x.f > 0
    /\ AnyBit(SubSeq(x.b, Max2(1, Len(x.b) - x.f + 1), Len(x.b)))

\* math.Ceil
Float64Ceil(x) == Float64Floor(x) + (IF Float64HasFraction(x) THEN 1 ELSE 0)

-----------------------------------------------------------------------------
(* The host and the provider, as the monitor loop sees them *)

\* The values of -threshold tried: one the usage samples can equal, and the
\* default.
Thresholds == {50, DefaultThreshold}

\* What syscall.Statfs answers for a filesystem of the given size: an error,
\* or block counts with at most that many blocks available.
StatOutcomes(blocks) ==
    {[ok |-> FALSE, Blocks |-> 0, Bavail |-> 0]}
        \cup {[ok |-> TRUE, Blocks |-> blocks, Bavail |-> b] : b \in 0..blocks}

\* math.MinInt64; the least integer of the model stands for it.
MinInt64 == 0 - 2147483647

\* line 297 in float64: int((1.0 - Bavail/Blocks) * 100.0), for
\* 0 <= Bavail <= Blocks and Blocks > 0
Float64Usage(blocks, bavail) ==
    Float64Floor(Float64Mul(Float64OneMinus(Float64Div(bavail, blocks)), 100))

\* Float64Usage, computed once for every block count up to MaxBlocks
UsageTable ==
    [blocks \in 1..MaxBlocks |->
        [bavail \in 0..blocks |-> Float64Usage(blocks, bavail)]]

\* getFilesystemUsage, line 297: the set of the values a build can return.
\* With Blocks = 0 the quotient 0/0 is NaN and the conversion of NaN to int is
\* left to the implementation: math.MinInt64 on amd64, 0 on arm64.
getFilesystemUsage(st) ==
    IF st.Blocks = 0 THEN {0, MinInt64}
    ELSE {UsageTable[st.Blocks][st.Bavail]}

\* usage < threshold with the comparison turned around
BelowThresholdInvertedMutant(u, t) == u > t

\* usage < threshold taken as usage <= threshold
BelowThresholdLeqMutant(u, t) == u <= t

\* usage < threshold, lines 167, 184, 208
BelowThreshold(u, t) == u < t

\* lines 226-227: expand = math.Max(1, float64(SizeGb) * (float64(expandBy) /
\* 100.0)), newSize = SizeGb + int64(math.Ceil(expand)), for s >= 0.  A product
\* below 1 (and every product with p <= 0) leaves expand = 1.
Float64NewSize(s, p) ==
    IF p <= 0 THEN s + 1
    ELSE LET product == Float64Mul(Float64Div(p, 100), s)
         IN  s + (IF Float64Floor(product) = 0 THEN 1
                  ELSE Float64Ceil(product))

\* Float64NewSize, computed once for every size up to MaxDiskGb and every
\* percentage from -MaxPercent to MaxPercent
NewSizeTable ==
    [s \in 0..MaxDiskGb |->
        [p \in (0 - MaxPercent)..MaxPercent |-> Float64NewSize(s, p)]]

\* lines 226-227 with math.Max(0, ...) in the place of math.Max(1, ...)
NewSizeNoMinimumMutant(s, p) ==
    IF p <= 0 \/ s = 0 THEN s ELSE NewSizeTable[s][p]

NewSize(s, p) == NewSizeTable[s][p]

\* The sub-error lists a failed operation may carry (op.Error.Errors); "<nil>"
\* is a nil entry.
OpErrorLists ==
    { <<>>,
      <<"<nil>">>,
      <<"quota exceeded">>,
      <<"quota exceeded", "zone unavailable">>,
      <<"<nil>", "zone unavailable">> }

\* lines 257-264: the messages of the non-nil entries, in order
RECURSIVE NonNilMessages(_)
NonNilMessages(errs) ==
    IF errs = <<>> THEN <<>>
    ELSE IF Head(errs) = "<nil>" THEN NonNilMessages(Tail(errs))
    ELSE <<Head(errs)>> \o NonNilMessages(Tail(errs))

\* The provider's operation as a terminal one, with or without an error record.
DoneOps(target, disk) ==
    {[Status |-> "DONE", HasError |-> FALSE, Errors |-> <<>>,
      age |-> 0, target |-> target, disk |-> disk]}
        \cup {[Status |-> "DONE", HasError |-> TRUE, Errors |-> e,
               age |-> 0, target |-> target, disk |-> disk] : e \in OpErrorLists}

\* The operation a resize request creates: not yet terminal, or already DONE.
NewOps(target, disk) ==
    {[Status |-> st, HasError |-> FALSE, Errors |-> <<>>,
      age |-> 0, target |-> target, disk |-> disk] : st \in {"PENDING", "RUNNING"}}
        \cup DoneOps(target, disk)

\* The operation at the next status poll: a DONE operation stays as it is;
\* another one is answered as not terminal at most MaxPending times.
NextOps(p) ==
    IF p.Status = "DONE" THEN {p}
    ELSE DoneOps(p.target, p.disk)
           \cup IF p.age < MaxPending
                  THEN {[p EXCEPT !.Status = st, !.age = p.age + 1] :
                            st \in {"PENDING", "RUNNING"}}
                  ELSE {}

\* What the API hands to the caller of an operation.
OperationView(p) ==
    [Status |-> p.Status, HasError |-> p.HasError, Errors |-> p.Errors]

\* The disk sizes once operation p is what the provider reports.
ApplyOp(sizes, p) ==
    IF p.Status = "DONE" /\ ~p.HasError
      THEN [sizes EXCEPT ![p.disk] = p.target]
      ELSE sizes

\* The history keeps the first MaxTrace calls of a usage check.
MaxTrace == 2 * MaxPending + 12

Record(tr, call, ok) ==
    IF Len(tr) < MaxTrace THEN Append(tr, [call |-> call, ok |-> ok]) ELSE tr

WorkingVolume(i) ==
    mountedGCEVolume("vol" \o ToString(i), "/mnt/vol" \o ToString(i),
                     "/dev/sd" \o ToString(i), "pd-" \o ToString(i),
                     "region", "zone")

-----------------------------------------------------------------------------
(* main, the monitor loop (lines 149-158) *)

\* The loop as it starts at line 149 with a working set of n resolved
\* volumes, each on a disk of 1 GB.  (main of part_000 itself stops at line
\* 141 before the loop, see C6; the loop is modelled for what it does once
\* it runs.)
MonitorInit ==
    /\ pc = "range"
    /\ fsBlocks = 4
    /\ stat = ZeroStat
    /\ \E n \in 1..MaxVolumes :
         /\ gceVolumes = [i \in 1..n |-> WorkingVolume(i)]
         /\ volumes = [i \in 1..n |-> WorkingVolume(i).Name]
         /\ pdSize = [i \in 1..n |-> 1]
    /\ podEnv = [nm \in Names |-> GoodEnv]
    /\ err = NoErr
    /\ threshold \in Thresholds
    /\ expandBy = DefaultExpandBy
    /\ idx = 1
    /\ usage = 0
    /\ diskSizeGb = 0
    /\ newSize = 0
    /\ op = NilOp
    /\ pdOp = NoPdOp
    /\ samples = <<>>
    /\ trace = <<>>

\* line 151-152: the next volume of the pass is checked, or the pass is over
Range ==
    /\ pc = "range"
    /\ IF idx <= Len(gceVolumes)
         THEN pc' = "sample1" /\ err' = NoErr
         ELSE pc' = "sleep" /\ err' = err
    /\ UNCHANGED <<startupVars, configVars, localVars, gceVolumes, idx,
                   pdSize, pdOp, samples, trace>>

\* lines 153-155 with log.Fatal in the place of log.Printf
LogResultFatalMutant ==
    /\ pc = "returned"
    /\ pc' = IF err # NoErr THEN "fatal" ELSE "range"
    /\ idx' = idx + 1
    /\ stat' = ZeroStat /\ usage' = 0 /\ diskSizeGb' = 0 /\ newSize' = 0
    /\ op' = NilOp
    /\ samples' = <<>> /\ trace' = <<>>
    /\ UNCHANGED <<startupVars, configVars, gceVolumes, err, pdSize, pdOp>>

\* lines 153-155: the error, if any, is logged; the range loop goes on
LogResult ==
    /\ pc = "returned"
    /\ pc' = "range"
    /\ idx' = idx + 1
    /\ stat' = ZeroStat /\ usage' = 0 /\ diskSizeGb' = 0 /\ newSize' = 0
    /\ op' = NilOp
    /\ samples' = <<>> /\ trace' = <<>>
    /\ UNCHANGED <<startupVars, configVars, gceVolumes, err, pdSize, pdOp>>

\* line 157: time.Sleep(pollPeriod), then the next pass
Sleep ==
    /\ pc = "sleep"
    /\ pc' = "range"
    /\ idx' = 1
    /\ UNCHANGED <<startupVars, configVars, localVars, gceVolumes, err,
                   pdSize, pdOp, samples, trace>>

-----------------------------------------------------------------------------
(* checkFilesystemUsage (lines 161-214), one action for each blocking call *)

envVars == <<pdSize, pdOp>>
frameVars == <<startupVars, configVars, gceVolumes, idx>>

\* lines 162-169: the first sample
Sample1 ==
    /\ pc = "sample1"
    /\ \E st \in StatOutcomes(fsBlocks) :
         /\ trace' = Record(trace, "statfs", st.ok)
         /\ stat' = [Blocks |-> st.Blocks, Bavail |-> st.Bavail]
         /\ IF ~st.ok
              THEN /\ pc' = "returned"
                   /\ err' = Errorf("statfs")
                   /\ UNCHANGED <<usage, samples>>
              ELSE /\ usage' \in getFilesystemUsage(st)
                   /\ samples' = Append(samples, usage')
                   /\ err' = NoErr
                   /\ pc' = IF BelowThreshold(usage', threshold)
                              THEN "returned" ELSE "grow1"
    /\ UNCHANGED <<frameVars, envVars, diskSizeGb, newSize, op>>

\* lines 174-177 without the return of the error
GrowFs1IgnoreErrorMutant ==
    /\ pc = "grow1"
    /\ \E ok \in BOOLEAN :
         /\ trace' = Record(trace, "resize2fs", ok)
         /\ pc' = "sample2"
         /\ err' = IF ok THEN NoErr ELSE Errorf("resize2fs")
    /\ UNCHANGED <<frameVars, envVars, localVars, samples>>

\* lines 174-177: resizeFilesystem (resize2fs) for the first time
GrowFs1 ==
    /\ pc = "grow1"
    /\ \E ok \in BOOLEAN :
         /\ trace' = Record(trace, "resize2fs", ok)
         /\ pc' = IF ok THEN "sample2" ELSE "returned"
         /\ err' = IF ok THEN NoErr ELSE Errorf("resize2fs")
    /\ UNCHANGED <<frameVars, envVars, localVars, samples>>

\* lines 179-187 without the return at line 185
Sample2NoReturnMutant ==
    /\ pc = "sample2"
    /\ \E st \in StatOutcomes(fsBlocks) :
         /\ trace' = Record(trace, "statfs", st.ok)
         /\ stat' = [Blocks |-> st.Blocks, Bavail |-> st.Bavail]
         /\ IF ~st.ok
              THEN /\ pc' = "returned"
                   /\ err' = Errorf("statfs")
                   /\ UNCHANGED <<usage, samples>>
              ELSE /\ usage' \in getFilesystemUsage(st)
                   /\ samples' = Append(samples, usage')
                   /\ err' = NoErr
                   /\ pc' = "getDisk"
    /\ UNCHANGED <<frameVars, envVars, diskSizeGb, newSize, op>>

\* lines 179-187: the sample after the first grow
Sample2 ==
    /\ pc = "sample2"
    /\ \E st \in StatOutcomes(fsBlocks) :
         /\ trace' = Record(trace, "statfs", st.ok)
         /\ stat' = [Blocks |-> st.Blocks, Bavail |-> st.Bavail]
         /\ IF ~st.ok
              THEN /\ pc' = "returned"
                   /\ err' = Errorf("statfs")
                   /\ UNCHANGED <<usage, samples>>
              ELSE /\ usage' \in getFilesystemUsage(st)
                   /\ samples' = Append(samples, usage')
                   /\ err' = NoErr
                   /\ pc' = IF BelowThreshold(usage', threshold)
                              THEN "returned" ELSE "getDisk"
    /\ UNCHANGED <<frameVars, envVars, diskSizeGb, newSize, op>>

\* lines 195: time.Sleep(10 * time.Second) after a resize without error
Settle ==
    /\ pc = "settle"
    /\ trace' = Record(trace, "sleep10", TRUE)
    /\ pc' = "grow2"
    /\ UNCHANGED <<frameVars, envVars, localVars, err, samples>>

\* lines 197-201 without the return of the error
GrowFs2IgnoreErrorMutant ==
    /\ pc = "grow2"
    /\ \E ok \in BOOLEAN :
         /\ trace' = Record(trace, "resize2fs", ok)
         /\ pc' = "sample3"
         /\ err' = IF ok THEN NoErr ELSE Errorf("resize2fs")
    /\ UNCHANGED <<frameVars, envVars, localVars, samples>>

\* lines 197-201: resizeFilesystem for the second time
GrowFs2 ==
    /\ pc = "grow2"
    /\ \E ok \in BOOLEAN :
         /\ trace' = Record(trace, "resize2fs", ok)
         /\ pc' = IF ok THEN "sample3" ELSE "returned"
         /\ err' = IF ok THEN NoErr ELSE Errorf("resize2fs")
    /\ UNCHANGED <<frameVars, envVars, localVars, samples>>

\* lines 203-213 with return nil at line 213
Sample3NoErrorMutant ==
    /\ pc = "sample3"
    /\ \E st \in StatOutcomes(fsBlocks) :
         /\ trace' = Record(trace, "statfs", st.ok)
         /\ stat' = [Blocks |-> st.Blocks, Bavail |-> st.Bavail]
         /\ pc' = "returned"
         /\ IF ~st.ok
              THEN /\ err' = Errorf("statfs")
                   /\ UNCHANGED <<usage, samples>>
              ELSE /\ usage' \in getFilesystemUsage(st)
                   /\ samples' = Append(samples, usage')
                   /\ err' = NoErr
    /\ UNCHANGED <<frameVars, envVars, diskSizeGb, newSize, op>>

\* lines 203-213: the last sample
Sample3 ==
    /\ pc = "sample3"
    /\ \E st \in StatOutcomes(fsBlocks) :
         /\ trace' = Record(trace, "statfs", st.ok)
         /\ stat' = [Blocks |-> st.Blocks, Bavail |-> st.Bavail]
         /\ pc' = "returned"
         /\ IF ~st.ok
              THEN /\ err' = Errorf("statfs")
                   /\ UNCHANGED <<usage, samples>>
              ELSE /\ usage' \in getFilesystemUsage(st)
                   /\ samples' = Append(samples, usage')
                   /\ err' = IF BelowThreshold(usage', threshold)
                               THEN NoErr
                               ELSE Errorf("failed to relieve pressure on persistent disk")
    /\ UNCHANGED <<frameVars, envVars, diskSizeGb, newSize, op>>

-----------------------------------------------------------------------------
(* resizePersistentDisk (lines 216-271), called at line 190; an error it *)
(* returns is returned by checkFilesystemUsage at lines 191-193            *)

\* lines 218-221 without the return of the error
GetDiskIgnoreErrorMutant ==
    /\ pc = "getDisk"
    /\ \E ok \in BOOLEAN :
         /\ trace' = Record(trace, "Disks.Get", ok)
         /\ diskSizeGb' = IF ok THEN pdSize[idx] ELSE diskSizeGb
         /\ pc' = "submit"
         /\ err' = IF ok THEN NoErr ELSE Errorf("Disks.Get")
    /\ UNCHANGED <<frameVars, envVars, stat, usage, newSize, op, samples>>

\* lines 218-221: diskService.Get
GetDisk ==
    /\ pc = "getDisk"
    /\ \E ok \in BOOLEAN :
         /\ trace' = Record(trace, "Disks.Get", ok)
         /\ IF ok
              THEN /\ diskSizeGb' = pdSize[idx]
                   /\ pc' = "submit"
                   /\ err' = NoErr
              ELSE /\ diskSizeGb' = diskSizeGb
                   /\ pc' = "returned"
                   /\ err' = Errorf("Disks.Get")
    /\ UNCHANGED <<frameVars, envVars, stat, usage, newSize, op, samples>>

\* lines 225-241 with the size asked for capped at MaxSizeGb
SubmitResizeCappedMutant ==
    /\ pc = "submit"
    /\ newSize' = IF NewSize(diskSizeGb, expandBy) > MaxSizeGb
                    THEN MaxSizeGb
                    ELSE NewSize(diskSizeGb, expandBy)
    /\ \/ /\ trace' = Record(trace, "Disks.Resize", FALSE)
          /\ pc' = "returned"
          /\ err' = Errorf("Disks.Resize")
          /\ UNCHANGED <<op, envVars>>
       \/ /\ trace' = Record(trace, "Disks.Resize", FALSE)
          /\ pc' = "returned"
          /\ err' = Errorf("nil operation returned by GCPDisksService")
          /\ UNCHANGED <<op, envVars>>
       \/ /\ newSize' <= MaxSizeGb
          /\ \E p \in NewOps(newSize', idx) :
               /\ pdOp' = p
               /\ pdSize' = ApplyOp(pdSize, p)
               /\ op' = OperationView(p)
          /\ trace' = Record(trace, "Disks.Resize", TRUE)
          /\ pc' = "pollCond"
          /\ err' = NoErr
    /\ UNCHANGED <<frameVars, stat, usage, diskSizeGb, samples>>

\* lines 225-241: the new size and diskService.Resize.  The provider takes
\* no request above MaxSizeGb.
SubmitResize ==
    /\ pc = "submit"
    /\ newSize' = NewSize(diskSizeGb, expandBy)
    /\ \/ /\ trace' = Record(trace, "Disks.Resize", FALSE)
          /\ pc' = "returned"
          /\ err' = Errorf("Disks.Resize")
          /\ UNCHANGED <<op, envVars>>
       \/ /\ trace' = Record(trace, "Disks.Resize", FALSE)
          /\ pc' = "returned"
          /\ err' = Errorf("nil operation returned by GCPDisksService")
          /\ UNCHANGED <<op, envVars>>
       \/ /\ newSize' <= MaxSizeGb
          /\ \E p \in NewOps(newSize', idx) :
               /\ pdOp' = p
               /\ pdSize' = ApplyOp(pdSize, p)
               /\ op' = OperationView(p)
          /\ trace' = Record(trace, "Disks.Resize", TRUE)
          /\ pc' = "pollCond"
          /\ err' = NoErr
    /\ UNCHANGED <<frameVars, stat, usage, diskSizeGb, samples>>

\* line 243: the condition of the polling loop
PollAgain(o) == o.Status # "DONE" \/ o.HasError

PollCond ==
    /\ pc = "pollCond"
    /\ pc' = IF PollAgain(op) THEN "poll" ELSE "finish"
    /\ UNCHANGED <<frameVars, envVars, localVars, err, samples, trace>>

\* lines 244-253 without the check for a nil operation
PollOperationNoNilCheckMutant ==
    /\ pc = "poll"
    /\ \/ /\ trace' = Record(Record(trace, "sleep30", TRUE), "ZoneOperations.Get", FALSE)
          /\ pc' = "returned"
          /\ err' = Errorf("ZoneOperations.Get")
          /\ op' = NilOp
          /\ UNCHANGED envVars
       \/ /\ trace' = Record(Record(trace, "sleep30", TRUE), "ZoneOperations.Get", FALSE)
          /\ pc' = "pollCond"
          /\ err' = NoErr
          /\ op' = NilOp
          /\ UNCHANGED envVars
       \/ /\ \E p \in NextOps(pdOp) :
               /\ pdOp' = p
               /\ pdSize' = ApplyOp(pdSize, p)
               /\ op' = OperationView(p)
          /\ trace' = Record(Record(trace, "sleep30", TRUE), "ZoneOperations.Get", TRUE)
          /\ pc' = "pollCond"
          /\ err' = NoErr
    /\ UNCHANGED <<frameVars, stat, usage, diskSizeGb, newSize, samples>>

\* lines 244-253: time.Sleep(30 * time.Second), zoneOperationsService.Get
PollOperation ==
    /\ pc = "poll"
    /\ \/ /\ trace' = Record(Record(trace, "sleep30", TRUE), "ZoneOperations.Get", FALSE)
          /\ pc' = "returned"
          /\ err' = Errorf("ZoneOperations.Get")
          /\ op' = NilOp
          /\ UNCHANGED envVars
       \/ /\ trace' = Record(Record(trace, "sleep30", TRUE), "ZoneOperations.Get", FALSE)
          /\ pc' = "returned"
          /\ err' = Errorf("nil operation returned by GCPZoneOperationsService")
          /\ op' = NilOp
          /\ UNCHANGED envVars
       \/ /\ \E p \in NextOps(pdOp) :
               /\ pdOp' = p
               /\ pdSize' = ApplyOp(pdSize, p)
               /\ op' = OperationView(p)
          /\ trace' = Record(Record(trace, "sleep30", TRUE), "ZoneOperations.Get", TRUE)
          /\ pc' = "pollCond"
          /\ err' = NoErr
    /\ UNCHANGED <<frameVars, stat, usage, diskSizeGb, newSize, samples>>

\* lines 256-270: after the loop.  multierror.Flatten of the appended
\* messages is an error value, whatever the number of messages.
FinishResize ==
    /\ pc = "finish"
    /\ IF op.HasError
         THEN /\ pc' = "returned"
              /\ err' = [kind |-> "multierror", msgs |-> NonNilMessages(op.Errors)]
         ELSE /\ pc' = "settle"
              /\ err' = NoErr
    /\ UNCHANGED <<frameVars, envVars, localVars, samples, trace>>

-----------------------------------------------------------------------------

MonitorNext ==
    \/ Range
    \/ Sample1
    \/ GrowFs1
    \/ Sample2
    \/ GetDisk
    \/ SubmitResize
    \/ PollCond
    \/ PollOperation
    \/ FinishResize
    \/ Settle
    \/ GrowFs2
    \/ Sample3
    \/ LogResult
    \/ Sleep

MonitorSpec == MonitorInit /\ [][MonitorNext]_vars

\* The control thread never stops: every blocking call returns.
FairMonitorSpec == MonitorSpec /\ WF_vars(MonitorNext)

-----------------------------------------------------------------------------
(* Properties of the usage check and of the loop *)

Calls(name) == {i \in 1..Len(trace) : trace[i].call = name}
DiskApiCalls == Calls("Disks.Get") \cup Calls("Disks.Resize") \cup Calls("ZoneOperations.Get")

\* C1: a usage check whose first sample is strictly below the threshold ends
\* with no error, having made no call but that one sample: no resize2fs, no
\* get disk, no resize request, no operation poll.
C1_BelowThresholdNoAction ==
    (Len(samples) >= 1 /\ samples[1] < threshold) =>
        /\ pc = "returned"
        /\ err = NoErr
        /\ trace = <<[call |-> "statfs", ok |-> TRUE]>>

C1_Witness ==
    /\ pc = "returned"
    /\ Len(samples) = 1
    /\ samples[1] < threshold
    /\ samples[1] > 0

\* C2: within one usage check no disk API call is made unless resize2fs ran
\* and succeeded earlier in that check; and after a first sample at or above
\* the threshold (equality included) the next call is resize2fs.
C2_GrowBeforeResize ==
    /\ \A i \in DiskApiCalls :
         \E j \in 1..(i - 1) : trace[j] = [call |-> "resize2fs", ok |-> TRUE]
    /\ (Len(samples) >= 1 /\ samples[1] >= threshold) =>
         \/ pc = "grow1" /\ Len(trace) = 1
         \/ Len(trace) >= 2 /\ trace[2].call = "resize2fs"

C2_Witness ==
    /\ Len(samples) >= 1
    /\ samples[1] = threshold
    /\ Calls("Disks.Resize") # {}

\* C3: the polling loop stops exactly when the operation is DONE: no status
\* poll is issued once a DONE status has been observed, and the loop is not
\* left while the status is not DONE.
C3_PollsExactlyUntilDone ==
    /\ pc = "poll" => op.Status # "DONE"
    /\ pc = "finish" => op.Status = "DONE"

\* The operation the code holds is DONE and carries a sub-error with a message.
DoneWithSubErrors(o) ==
    o.Status = "DONE" /\ o.HasError /\ NonNilMessages(o.Errors) # <<>>

\* C4: once the submitted operation is DONE with sub-errors, the resize is on
\* its way to returning (it does not poll again), and the usage check returns
\* an error holding the message of every non-nil sub-error, with no second
\* resize2fs.
C4_SubErrorsReturned ==
    /\ DoneWithSubErrors(op) => pc \in {"pollCond", "finish"}
    /\ ( /\ pc = "returned"
         /\ \E i \in Calls("Disks.Resize") : trace[i].ok
         /\ DoneWithSubErrors(pdOp) ) =>
           /\ err.kind = "multierror"
           /\ err.msgs = NonNilMessages(pdOp.Errors)
           /\ Cardinality(Calls("resize2fs")) = 1

\* The operation is DONE and carries an error record with no sub-error in it
\* but nil ones.
DoneWithEmptyErrorRecord(o) ==
    o.Status = "DONE" /\ o.HasError /\ NonNilMessages(o.Errors) = <<>>

\* C12: once the submitted operation is DONE with an error record that is
\* empty or holds only nil entries, the resize goes to its aggregation step and
\* not to another poll, and the usage check does not return a failure of the
\* resize: what it returns is no error or the error of a later step.
C12_EmptyErrorRecordIsNoFailure ==
    /\ DoneWithEmptyErrorRecord(op) => pc \in {"pollCond", "finish"}
    /\ ( /\ pc = "returned"
         /\ \E i \in Calls("Disks.Resize") : trace[i].ok
         /\ DoneWithEmptyErrorRecord(pdOp) ) =>
           err.kind \in {"nil", "resize2fs", "statfs",
                         "failed to relieve pressure on persistent disk"}

\* C13: a failed diskService.Get or a failed diskService.Resize is the last
\* call of the usage check: the check has returned with that call's error, and
\* made no 30s wait and no operation-status poll.
C13_FailedRequestReturnsAtOnce ==
    \A i \in Calls("Disks.Get") \cup Calls("Disks.Resize") :
        ~trace[i].ok =>
            /\ i = Len(trace)
            /\ pc = "returned"
            /\ err.kind \in {"Disks.Get", "Disks.Resize",
                              "nil operation returned by GCPDisksService"}
            /\ trace[i].call = "Disks.Get" <=> err.kind = "Disks.Get"
            /\ Calls("sleep30") = {}
            /\ Calls("ZoneOperations.Get") = {}

\* The resize request failed after the disk had been fetched.
C13_Witness ==
    /\ pc = "returned"
    /\ err.kind = "Disks.Resize"
    /\ Calls("Disks.Get") # {}
    /\ trace[Len(trace)] = [call |-> "Disks.Resize", ok |-> FALSE]

\* C14: when the request or a status poll leaves resizePersistentDisk with a
\* nil operation, the resize attempt ends there with an error: the poll loop
\* never runs on a nil operation.
C14_NilOperationEndsAttempt ==
    /\ [][ (pc \in {"submit", "poll"} /\ op' = NilOp) =>
               (pc' = "returned" /\ err' # NoErr) ]_vars
    /\ [](pc \in {"pollCond", "poll", "finish"} => op # NilOp)

\* A status poll after the first one answered a nil operation.
C14_Witness ==
    /\ pc = "returned"
    /\ err.kind = "nil operation returned by GCPZoneOperationsService"
    /\ op = NilOp
    /\ Cardinality(Calls("ZoneOperations.Get")) >= 2

\* The error of line 213.
Exhausted == Errorf("failed to relieve pressure on persistent disk")

\* C15: a usage check returns the error "failed to relieve pressure on
\* persistent disk" exactly when it took three samples, all at or above the
\* threshold (so both resize2fs runs and the disk resize succeeded); after it
\* the range loop goes on to the next volume.
C15_ExhaustedExactlyAfterThreeHighSamples ==
    /\ [](pc = "returned" =>
            (err = Exhausted <=>
                /\ Len(samples) = 3
                /\ \A i \in 1..3 : samples[i] >= threshold))
    /\ []((pc = "returned" /\ Len(samples) = 3) =>
            /\ Cardinality({i \in Calls("resize2fs") : trace[i].ok}) = 2
            /\ pdOp.Status = "DONE" /\ ~pdOp.HasError)
    /\ [][ (pc = "returned" /\ err = Exhausted) =>
               (pc' = "range" /\ idx' = idx + 1) ]_vars

\* The first of two volumes ended its usage check with that error, the last
\* sample equal to the threshold.
C15_Witness ==
    /\ pc = "returned"
    /\ err = Exhausted
    /\ idx = 1
    /\ Len(gceVolumes) = 2
    /\ samples[3] = threshold

\* C18: a usage check whose sample after the first resize2fs is below the
\* threshold ends with no error after exactly these three calls: no get disk,
\* no resize request, no status poll, no 10s sleep, no second resize2fs.
C18_BelowAfterFirstGrowEnds ==
    (Len(samples) >= 2 /\ samples[2] < threshold) =>
        /\ pc = "returned"
        /\ err = NoErr
        /\ trace = << [call |-> "statfs", ok |-> TRUE],
                      [call |-> "resize2fs", ok |-> TRUE],
                      [call |-> "statfs", ok |-> TRUE] >>

C18_Witness ==
    /\ pc = "returned"
    /\ Len(samples) = 2
    /\ samples[1] >= threshold
    /\ samples[2] < threshold

\* resizePersistentDisk saw its operation DONE with no error record.
ResizeCompleted == op.Status = "DONE" /\ ~op.HasError

\* C19 as stated: at most one resize request in a usage check; a returned
\* check whose resize completed without error made exactly one further
\* resize2fs call and took exactly one further usage sample, and has no error
\* iff that sample is below the threshold.
C19_OneResizeThenGrowAndSample ==
    /\ Cardinality(Calls("Disks.Resize")) <= 1
    /\ (pc = "returned" /\ ResizeCompleted) =>
          /\ Cardinality(Calls("resize2fs")) = 2
          /\ Len(samples) = 3
          /\ err = NoErr <=> samples[3] < threshold

\* C19 amended: at most one resize request in a usage check; a returned check
\* whose resize completed without error made exactly one further resize2fs
\* call and, when that call succeeded, exactly one further call of statfs; it
\* has no error iff a third sample was taken and is below the threshold.
C19_OneResizeThenGrowThenSampleIfGrown ==
    /\ Cardinality(Calls("Disks.Resize")) <= 1
    /\ (pc = "returned" /\ ResizeCompleted) =>
          /\ Cardinality(Calls("resize2fs")) = 2
          /\ Cardinality(Calls("statfs")) =
                IF \A i \in Calls("resize2fs") : trace[i].ok THEN 3 ELSE 2
          /\ err = NoErr <=> (Len(samples) = 3 /\ samples[3] < threshold)

\* The resize took more than one poll to complete and the sample after the
\* second resize2fs is below the threshold.
C19_Witness ==
    /\ pc = "returned"
    /\ ResizeCompleted
    /\ Cardinality(Calls("ZoneOperations.Get")) >= 1
    /\ err = NoErr
    /\ Len(samples) = 3

\* Errors returned by resizePersistentDisk (lines 219-266).
ResizeErrorKinds ==
    {"Disks.Get", "Disks.Resize", "nil operation returned by GCPDisksService",
     "ZoneOperations.Get", "nil operation returned by GCPZoneOperationsService",
     "multierror"}

\* C20: a failed call is the last call of its usage check, which has returned
\* an error; a check that returned an error of the disk resize made no 10s
\* sleep, no second resize2fs and no third sample; the error leaves the loop
\* running and the next check of a volume starts at the first sample with
\* nothing kept from the last one.
C20_FailureAbandonsTheCheck ==
    /\ [](\A i \in 1..Len(trace) :
            ~trace[i].ok =>
                /\ i = Len(trace)
                /\ pc = "returned"
                /\ err \notin {NoErr, Exhausted})
    /\ []((pc = "returned" /\ err.kind \in ResizeErrorKinds) =>
            /\ Calls("sleep10") = {}
            /\ Cardinality(Calls("resize2fs")) = 1
            /\ Len(samples) = 2)
    /\ [](pc = "sample1" => (trace = <<>> /\ samples = <<>>))
    /\ [][ (pc = "returned" /\ err # NoErr) =>
               (pc' = "range" /\ trace' = <<>> /\ samples' = <<>>) ]_vars

\* The second resize2fs of a usage check failed.
C20_Witness ==
    /\ pc = "returned"
    /\ Calls("sleep10") # {}
    /\ trace[Len(trace)] = [call |-> "resize2fs", ok |-> FALSE]

\* C5: every volume of the working set is measured again and again, whatever
\* happens to the other volumes.
C5_EveryVolumeMeasuredAgain ==
    \A i \in 1..MaxVolumes :
        []<>(i > Len(gceVolumes) \/ (pc = "sample1" /\ idx = i))

\* C10: the working set never changes and the process never dies in the loop;
\* after a usage check returned an error the range loop goes on to the next
\* volume, the pass ends in the sleep, and the next pass starts at the first
\* volume.
C10_ErrorsAreNotFatal ==
    [][ /\ gceVolumes' = gceVolumes
        /\ pc' # "fatal"
        /\ (pc = "returned" /\ err # NoErr) =>
              (pc' = "range" /\ idx' = idx + 1 /\ err' = err)
        /\ pc = "range" =>
              IF idx <= Len(gceVolumes)
                THEN pc' = "sample1" /\ idx' = idx
                ELSE pc' = "sleep"
        /\ pc = "sleep" => (pc' = "range" /\ idx' = 1) ]_vars

\* A pass whose last usage check returned an error is over and the next pass
\* is about to start.
C10_Witness ==
    /\ pc = "range"
    /\ idx = 1
    /\ err # NoErr
    /\ Len(gceVolumes) = MaxVolumes

\* The provider's last operation is one for the given disk that has not
\* reached a terminal status.
Outstanding(disk) ==
    pdOp.disk = disk /\ pdOp.Status \in {"PENDING", "RUNNING"}

-----------------------------------------------------------------------------
(* resizePersistentDisk on its own: every disk size and every -expand-by *)

\* The usage check at line 189, after a second sample at or above the
\* threshold, for one volume whose disk has any size up to MaxDiskGb, under
\* any -expand-by from -MaxPercent to MaxPercent.
ResizeInit ==
    /\ pc = "getDisk"
    /\ fsBlocks = 4
    /\ stat = [Blocks |-> 4, Bavail |-> 0]
    /\ gceVolumes = <<WorkingVolume(1)>>
    /\ volumes = <<WorkingVolume(1).Name>>
    /\ pdSize \in [{1} -> 1..MaxDiskGb]
    /\ podEnv = [nm \in Names |-> GoodEnv]
    /\ err = NoErr
    /\ threshold = DefaultThreshold
    /\ expandBy \in (0 - MaxPercent)..MaxPercent
    /\ idx = 1
    /\ usage = 100
    /\ diskSizeGb = 0
    /\ newSize = 0
    /\ op = NilOp
    /\ pdOp = NoPdOp
    /\ samples = <<100, 100>>
    /\ trace = << [call |-> "statfs", ok |-> TRUE],
                  [call |-> "resize2fs", ok |-> TRUE],
                  [call |-> "statfs", ok |-> TRUE] >>

ResizeNext == GetDisk \/ SubmitResize

ResizeSpec == ResizeInit /\ [][ResizeNext]_vars

\* diskService.Resize has been called (line 234) in this usage check.
ResizeRequested == pc \notin {"getDisk", "submit"} /\ Calls("Disks.Resize") # {}

\* C11: for every fetched size S >= 1 and every percentage p >= 0 the size
\* asked for is S + max(1, ceil(S*p/100)); (S*p + 99) \div 100 is that ceiling.
C11_RequestedSize ==
    (ResizeRequested /\ diskSizeGb >= 1 /\ expandBy >= 0) =>
        newSize = diskSizeGb + Max2(1, (diskSizeGb * expandBy + 99) \div 100)

\* C16: every resize request asks for strictly more than the size fetched in
\* the same attempt, whatever -expand-by is (zero and negative included).
C16_RequestExceedsFetchedSize ==
    ResizeRequested => newSize > diskSizeGb

\* A request under a negative -expand-by was accepted by the provider.
C16_Witness ==
    /\ ResizeRequested
    /\ expandBy < 0
    /\ diskSizeGb > 1
    /\ trace[Len(trace)] = [call |-> "Disks.Resize", ok |-> TRUE]

-----------------------------------------------------------------------------
(* getFilesystemUsage on its own: every filesystem size *)

\* The usage check at line 162 for one volume whose filesystem has any number
\* of blocks up to MaxBlocks (none included).
UsageInit ==
    /\ pc = "sample1"
    /\ fsBlocks \in 0..MaxBlocks
    /\ stat = ZeroStat
    /\ gceVolumes = <<WorkingVolume(1)>>
    /\ volumes = <<WorkingVolume(1).Name>>
    /\ pdSize = <<1>>
    /\ podEnv = [nm \in Names |-> GoodEnv]
    /\ err = NoErr
    /\ threshold \in Thresholds
    /\ expandBy = DefaultExpandBy
    /\ idx = 1
    /\ usage = 0
    /\ diskSizeGb = 0
    /\ newSize = 0
    /\ op = NilOp
    /\ pdOp = NoPdOp
    /\ samples = <<>>
    /\ trace = <<>>

UsageNext == Sample1

UsageSpec == UsageInit /\ [][UsageNext]_vars

\* C17: for every successful stat getFilesystemUsage returns an integer of
\* 0..100, which is (1 - available/total) * 100 truncated toward zero (the
\* quotient ((total - available) * 100) \div total); total = 0 and
\* available = total included.
C17_UsageIsTruncatedPercentage ==
    Len(samples) = 1 =>
        /\ usage \in 0..100
        /\ stat.Blocks > 0 =>
              usage = ((stat.Blocks - stat.Bavail) * 100) \div stat.Blocks

-----------------------------------------------------------------------------
(* The monitor loop: growth from tick to tick *)

\* C22: nothing caps or remembers the resizes.  A usage check whose second
\* sample is at or above the threshold and whose disk was fetched goes on to a
\* resize request; the size asked for is computed from the size the disk has
\* then and is above it, and above the size asked for last when that resize of
\* the disk succeeded; no disk ever shrinks.  So the sizes asked for grow from
\* tick to tick as long as every resize succeeds.
C22_GrowthIsNotCapped ==
    /\ []((/\ Len(samples) >= 2
           /\ samples[2] >= threshold
           /\ [call |-> "Disks.Get", ok |-> TRUE] \in
                  {trace[i] : i \in 1..Len(trace)}) =>
              (pc = "submit" \/ Calls("Disks.Resize") # {}))
    /\ [](pc = "submit" => diskSizeGb = pdSize[idx])
    /\ [][ (pc = "submit" /\ pc' # "submit") =>
               /\ newSize' > pdSize[idx]
               /\ (pdOp.disk = idx /\ pdOp.Status = "DONE" /\ ~pdOp.HasError)
                      => newSize' > pdOp.target ]_vars
    /\ [][ \A i \in 1..Len(pdSize) : pdSize'[i] >= pdSize[i] ]_vars

\* The third request for a disk whose first two resizes succeeded, accepted.
C22_Witness ==
    /\ ResizeRequested
    /\ diskSizeGb >= 3
    /\ newSize > diskSizeGb
    /\ trace[Len(trace)] = [call |-> "Disks.Resize", ok |-> TRUE]

====
